---------------------------- MODULE Spec2Model ----------------------------
(***************************************************************************)
(* gTTS-ts: the text segmentation pipeline of gTTS (src/src/tts.ts), its   *)
(* helpers minimize and cleanTokens (src/src/utils.ts), the regex          *)
(* pre-processors and the Tokenizer (src/src/tokenizer/core.ts,            *)
(* pre_processors.ts, tokenizer_cases.ts, symbols.ts) and the request      *)
(* loop of gTTS.stream.                                                    *)
(*                                                                         *)
(* A JavaScript string is modelled as a sequence of one-character strings  *)
(* (UTF-16 code units).  Characters outside ASCII are written by their     *)
(* code point, e.g. "U+FF1F" for the full-width question mark.             *)
(***************************************************************************)
EXTENDS Integers, Sequences, FiniteSets, TLC

(***************************************************************************)
(* Bounds of the model.                                                    *)
(***************************************************************************)
\* longest text enumerated exhaustively over Alphabet
MaxLen == 4
\* largest maximum chunk size paired with the exhaustively enumerated texts
MaxSmallSize == 2
\* depth at which the JavaScript engine's call stack is exhausted
MaxStack == 16
\* most audio buffers decoded from one response
MaxBuffers == 1
\* longest text enumerated for a pre-processor called on its own
MaxPreLen == 5
\* size of the largest token list cleanTokens is called with on its own: its
\* number of tokens plus their number of characters
MaxCleanSize == 6

(***************************************************************************)
(* Symbol tables: src/unnamed/part_003 (tokenizer/symbols.ts).             *)
(***************************************************************************)
ABBREVIATIONS ==
    << <<"d","r">>, <<"j","r">>, <<"m","r">>, <<"m","r","s">>, <<"m","s">>,
       <<"m","s","g","r">>, <<"p","r","o","f">>, <<"s","r">>, <<"s","t">> >>

SUB_PAIRS == << << <<"E","s","q",".">>, <<"E","s","q","u","i","r","e">> >> >>

ALL_PUNC ==
    << "?", "!", "U+FF1F", "U+FF01", ".", ",", "U+00A1", "(", ")", "[", "]",
       "U+00BF", "U+2026", "U+2025", "U+060C", ";", ":", "U+2014", "U+3002",
       "U+FF0C", "U+3001", "U+FF1A", "\n" >>

TONE_MARKS == << "?", "!", "U+FF1F", "U+FF01" >>

PERIOD_COMMA == << ".", "," >>

COLON == << ":" >>

(***************************************************************************)
(* Character classes of the JavaScript regex engine and of String.trim.    *)
(***************************************************************************)
Range(s) == { s[i] : i \in 1..Len(s) }

LOWER ==
    << "a","b","c","d","e","f","g","h","i","j","k","l","m",
       "n","o","p","q","r","s","t","u","v","w","x","y","z" >>

UPPER ==
    << "A","B","C","D","E","F","G","H","I","J","K","L","M",
       "N","O","P","Q","R","S","T","U","V","W","X","Y","Z" >>

\* canonicalisation of a character under the "i" flag
ToLower(c) ==
    IF \E i \in 1..Len(UPPER) : UPPER[i] = c
    THEN LOWER[CHOOSE i \in 1..Len(UPPER) : UPPER[i] = c]
    ELSE c

\* [a-z] under the "i" flag
IsLetter(c) == ToLower(c) \in Range(LOWER)

\* \d
IsDigit(c) == c \in {"0","1","2","3","4","5","6","7","8","9"}

\* the characters "." does not match
LineTerminators == {"\n", "\r", "U+2028", "U+2029"}

\* \s, and the characters String.prototype.trim strips
WhiteSpace ==
    {" ", "\t", "\n", "\r", "\f", "U+000B", "U+00A0", "U+FEFF", "U+2028", "U+2029"}

\* case-insensitive equality of two strings
EqualsIgnoreCase(s, t) ==
    /\ Len(s) = Len(t)
    /\ \A i \in 1..Len(s) : ToLower(s[i]) = ToLower(t[i])

(***************************************************************************)
(* JavaScript String methods (indices are 0-based, as in the source).      *)
(***************************************************************************)
Min(a, b) == IF a < b THEN a ELSE b
Max(a, b) == IF a > b THEN a ELSE b

Clamp(i, n) == Max(0, Min(i, n))

\* s.substring(a, b): both ends clamped to [0, length], swapped when a > b
Substring(s, a, b) ==
    LET lo == Min(Clamp(a, Len(s)), Clamp(b, Len(s)))
        hi == Max(Clamp(a, Len(s)), Clamp(b, Len(s)))
    IN  SubSeq(s, lo + 1, hi)

\* s.substring(a)
SubstringFrom(s, a) == Substring(s, a, Len(s))

\* s.startsWith(d)
StartsWith(s, d) == Len(d) <= Len(s) /\ SubSeq(s, 1, Len(d)) = d

\* whether d occurs in s at 0-based index k
OccursAt(s, d, k) ==
    /\ k >= 0
    /\ k + Len(d) <= Len(s)
    /\ SubSeq(s, k + 1, k + Len(d)) = d

\* s.lastIndexOf(d, pos): the greatest index <= pos at which d occurs, or -1
LastIndexOf(s, d, pos) ==
    LET start == Min(Max(pos, 0), Len(s) - Len(d))
        hits  == { k \in 0..start : OccursAt(s, d, k) }
    IN  IF hits = {} THEN -1 ELSE CHOOSE k \in hits : \A j \in hits : j <= k

\* s.trim(): what lies between the first and the last character that is not
\* white space
Trim(s) ==
    LET solid == { i \in 1..Len(s) : s[i] \notin WhiteSpace }
    IN  IF solid = {} THEN <<>>
        ELSE SubSeq(s, CHOOSE i \in solid : \A j \in solid : i <= j,
                       CHOOSE i \in solid : \A j \in solid : j <= i)

\* the concatenation of a list of strings
RECURSIVE Concat(_)
Concat(ss) == IF ss = <<>> THEN <<>> ELSE Head(ss) \o Concat(Tail(ss))

\* n copies of the character c
Rep(c, n) == [i \in 1..n |-> c]

(***************************************************************************)
(* Regex substitution: src/src/tokenizer/core.ts, PreProcessorRegex.run.   *)
(* A compiled regex is represented by its match function m on the text:    *)
(* m[q] is the length of the match that starts at 0-based index q, or -1.  *)
(***************************************************************************)
NoMatch == -1

\* the index of the first match at or after index q, or NoMatch
NextMatch(text, m, q) ==
    LET at == { k \in q..Len(text) : m[k] # NoMatch }
    IN  IF at = {} THEN NoMatch ELSE CHOOSE k \in at : \A j \in at : k <= j

\* text.replace(globalRegex, repl) from index q on: the matches are taken
\* left to right and do not overlap; after an empty match the scan advances
\* by one character
RECURSIVE ReplaceFrom(_, _, _, _)
ReplaceFrom(text, m, repl, q) ==
    LET k == NextMatch(text, m, q) IN
    IF k = NoMatch THEN SubstringFrom(text, q)
    ELSE Substring(text, q, k) \o repl
         \o (IF m[k] = 0
             THEN Substring(text, k, k + 1) \o ReplaceFrom(text, m, repl, k + 1)
             ELSE ReplaceFrom(text, m, repl, k + m[k]))

\* String.prototype.replace with a regex that lacks the "g" flag: the first
\* match only is replaced
ReplaceFirst(text, m, repl) ==
    LET k == NextMatch(text, m, 0) IN
    IF k = NoMatch THEN text
    ELSE Substring(text, 0, k) \o repl \o SubstringFrom(text, k + Max(m[k], 0))

\* one pass of the loop of PreProcessorRegex.run: the "g" flag is always added
ReplaceAll(text, m, repl) == ReplaceFrom(text, m, repl, 0)

(***************************************************************************)
(* Pre-processors: src/src/tokenizer/pre_processors.ts.                    *)
(***************************************************************************)
\* (?<=x) : the empty match right after the character x
ToneMarkMatch(text, x) ==
    [q \in 0..Len(text) |-> IF q >= 1 /\ text[q] = x THEN 0 ELSE NoMatch]

RECURSIVE ToneMarksFrom(_, _)
ToneMarksFrom(text, i) ==
    IF i > Len(TONE_MARKS) THEN text
    ELSE ToneMarksFrom(ReplaceAll(text, ToneMarkMatch(text, TONE_MARKS[i]), <<" ">>),
                       i + 1)

\* pre_processors.toneMarks: one regex per tone mark, run in turn
ppToneMarks(text) == ToneMarksFrom(text, 1)

\* -\n : a hyphen followed by a newline
EndOfLineMatch(text) ==
    [q \in 0..Len(text) |->
        IF q + 2 <= Len(text) /\ text[q + 1] = "-" /\ text[q + 2] = "\n"
        THEN 2 ELSE NoMatch]

\* pre_processors.endOfLine
ppEndOfLine(text) == ReplaceAll(text, EndOfLineMatch(text), <<>>)

\* (?<=abbr)(?=\.). with the "i" flag: a period right after the root abbr
AbbreviationMatch(text, abbr) ==
    [q \in 0..Len(text) |->
        IF /\ q + 1 <= Len(text)
           /\ text[q + 1] = "."
           /\ q >= Len(abbr)
           /\ EqualsIgnoreCase(SubSeq(text, q - Len(abbr) + 1, q), abbr)
        THEN 1 ELSE NoMatch]

RECURSIVE AbbreviationsFrom(_, _)
AbbreviationsFrom(text, i) ==
    IF i > Len(ABBREVIATIONS) THEN text
    ELSE AbbreviationsFrom(
             ReplaceAll(text, AbbreviationMatch(text, ABBREVIATIONS[i]), <<>>),
             i + 1)

\* pre_processors.abbreviations: one regex per root, run in turn
ppAbbreviations(text) == AbbreviationsFrom(text, 1)

\* the escaped literal find, with the "i" flag
SubMatch(text, find) ==
    [q \in 0..Len(text) |->
        IF /\ find # <<>>
           /\ q + Len(find) <= Len(text)
           /\ EqualsIgnoreCase(SubSeq(text, q + 1, q + Len(find)), find)
        THEN Len(find) ELSE NoMatch]

RECURSIVE WordSubFrom(_, _)
WordSubFrom(text, i) ==
    IF i > Len(SUB_PAIRS) THEN text
    ELSE WordSubFrom(
             ReplaceAll(text, SubMatch(text, SUB_PAIRS[i][1]), SUB_PAIRS[i][2]),
             i + 1)

\* pre_processors.wordSub (PreProcessorSub.run over SUB_PAIRS)
ppWordSub(text) == WordSubFrom(text, 1)

\* the default preProcessorFuncs of the constructor, applied in order
PreProcess(text) == ppWordSub(ppAbbreviations(ppEndOfLine(ppToneMarks(text))))

(***************************************************************************)
(* Tokenizer cases: src/unnamed/part_002 (tokenizer/tokenizer_cases.ts).   *)
(* Each gives the length of its match at 0-based index q, or NoMatch.      *)
(***************************************************************************)
\* (?<=x). for x in TONE_MARKS: the character after a tone mark
caseToneMarks(text, q) ==
    IF /\ q >= 1
       /\ q + 1 <= Len(text)
       /\ text[q] \in Range(TONE_MARKS)
       /\ text[q + 1] \notin LineTerminators
    THEN 1 ELSE NoMatch

\* (?<!\.[a-z])x followed by a space, for x in PERIOD_COMMA
casePeriodComma(text, q) ==
    IF /\ q + 2 <= Len(text)
       /\ text[q + 1] \in Range(PERIOD_COMMA)
       /\ text[q + 2] = " "
       /\ ~(q >= 2 /\ text[q - 1] = "." /\ IsLetter(text[q]))
    THEN 2 ELSE NoMatch

\* caseColon without its look-behind: a colon splits wherever it stands
caseColonUnguarded(text, q) ==
    IF q + 1 <= Len(text) /\ text[q + 1] \in Range(COLON) THEN 1 ELSE NoMatch

\* (?<!\d): a colon not preceded by a digit
caseColon(text, q) ==
    IF /\ q + 1 <= Len(text)
       /\ text[q + 1] \in Range(COLON)
       /\ ~(q >= 1 /\ IsDigit(text[q]))
    THEN 1 ELSE NoMatch

\* ALL_PUNC without the tone marks, the period, the comma and the colon
OtherPunc ==
    Range(ALL_PUNC) \ (Range(TONE_MARKS) \cup Range(PERIOD_COMMA) \cup Range(COLON))

caseOtherPunctuation(text, q) ==
    IF q + 1 <= Len(text) /\ text[q + 1] \in OtherPunc THEN 1 ELSE NoMatch

(***************************************************************************)
(* Tokenizer: src/src/tokenizer/core.ts.                                   *)
(***************************************************************************)
\* the value of a capturing group that took no part in the match
undefined == <<"undefined">>

\* the number of capturing groups of totalRegex: one per tokenizer case
NGroups == 4

\* the match length of the g-th alternative "(case)" of totalRegex at q
GroupMatch(text, q, g) ==
    CASE g = 1 -> caseToneMarks(text, q)
      [] g = 2 -> casePeriodComma(text, q)
      [] g = 3 -> caseColon(text, q)
      [] g = 4 -> caseOtherPunctuation(text, q)

\* Tokenizer.combineRegex: the alternatives are tried in order; the result is
\* the group that matches at q (0 when none does)
MatchGroup(text, q) ==
    IF \E g \in 1..NGroups : GroupMatch(text, q, g) # NoMatch
    THEN CHOOSE g \in 1..NGroups :
            /\ GroupMatch(text, q, g) # NoMatch
            /\ \A h \in 1..(g - 1) : GroupMatch(text, q, h) = NoMatch
    ELSE 0

\* Captures for alternatives joined without the capturing parentheses: the
\* matched delimiter surfaces in no element
CapturesNone(text, q, g) == [h \in 1..NGroups |-> undefined]

\* what String.prototype.split appends for a match of group g: every group's
\* capture, undefined for the groups that did not take part
Captures(text, q, g) ==
    [h \in 1..NGroups |->
        IF h = g THEN SubSeq(text, q + 1, q + GroupMatch(text, q, g))
        ELSE undefined]

\* the loop of String.prototype.split: the index, from p on and before the
\* end of the text, of the next match that does not end at p; NoMatch if none
NextSplit(text, p) ==
    LET at == { q \in p..(Len(text) - 1) :
                   /\ MatchGroup(text, q) # 0
                   /\ q + GroupMatch(text, q, MatchGroup(text, q)) # p }
    IN  IF at = {} THEN NoMatch ELSE CHOOSE q \in at : \A j \in at : q <= j

\* String.prototype.split from p, the end of the last match: the text up to
\* the next match, the captures of the match, and so on
RECURSIVE SplitFrom(_, _)
SplitFrom(text, p) ==
    LET q == NextSplit(text, p) IN
    IF q = NoMatch THEN << SubSeq(text, p + 1, Len(text)) >>
    ELSE << SubSeq(text, p + 1, q) >> \o Captures(text, q, MatchGroup(text, q))
         \o SplitFrom(text, q + GroupMatch(text, q, MatchGroup(text, q)))

\* Tokenizer.run: text.split(totalRegex)
TokenizerRun(text) == SplitFrom(text, 0)

(***************************************************************************)
(* cleanTokens and minimize: src/src/utils.ts.                             *)
(***************************************************************************)
\* _ALL_PUNC_OR_SPACE.test(t)
AllPuncOrSpace(t) == \A i \in 1..Len(t) : t[i] \in Range(ALL_PUNC) \cup WhiteSpace

\* t.trim() on an element that is not a string raises a TypeError
CleanTokensThrows(tokens) == \E i \in 1..Len(tokens) : tokens[i] = undefined

KeepToken(t) == t # <<>> /\ ~AllPuncOrSpace(t)

\* cleanTokens without the trim of each token
cleanTokensNoTrim(tokens) == SelectSeq(tokens, KeepToken)

\* cleanTokens with a filter that drops the empty tokens only
cleanTokensKeepPunc(tokens) ==
    SelectSeq([i \in 1..Len(tokens) |-> Trim(tokens[i])], LAMBDA t : t # <<>>)

\* cleanTokens(tokens), when it returns
cleanTokens(tokens) ==
    SelectSeq([i \in 1..Len(tokens) |-> Trim(tokens[i])], KeepToken)

\* StripDelim without the startsWith test: the head of the string is dropped
\* whatever it is
StripDelimAlways(theString, delim) == SubstringFrom(theString, Len(delim))

\* StripDelim left out: a leading delim stays
StripDelimNever(theString, delim) == theString

\* lines 19-21: one leading delim is removed
StripDelim(theString, delim) ==
    IF StartsWith(theString, delim)
    THEN SubstringFrom(theString, Len(delim))
    ELSE theString

\* CutIndex with lastIndexOf(delim), the search not limited to maxSize
CutIndexAnywhere(theString, delim, maxSize) ==
    LET idx == LastIndexOf(theString, delim, Len(theString))
    IN  IF idx = -1 THEN maxSize ELSE idx

\* CutIndex with the fallback cut one character too far
CutIndexOffByOne(theString, delim, maxSize) ==
    LET idx == LastIndexOf(theString, delim, maxSize)
    IN  IF idx = -1 THEN maxSize + 1 ELSE idx

\* lines 25-36: the cut index
CutIndex(theString, delim, maxSize) ==
    LET idx == LastIndexOf(theString, delim, maxSize)
    IN  IF idx = -1 THEN maxSize ELSE idx

(***************************************************************************)
(* Inputs.                                                                 *)
(***************************************************************************)
\* gTTS.GOOGLE_TTS_MAX_CHARS as the class sets it
GOOGLE_TTS_MAX_CHARS == 100

\* every string over the set of characters cs of length at most n
RECURSIVE StringsUpTo(_, _)
StringsUpTo(cs, n) ==
    IF n = 0 THEN { <<>> }
    ELSE LET shorter == StringsUpTo(cs, n - 1)
         IN  shorter \cup { <<c>> \o t : c \in cs, t \in { u \in shorter : Len(u) = n - 1 } }

\* a letter, a digit, the space, a period, a colon and a tone mark
Alphabet == {"a", "1", " ", ".", ":", "!"}

ShortTexts == StringsUpTo(Alphabet, MaxLen)

\* the texts of the documented examples, and texts around the default limit
SampleTexts ==
    { <<"I","t"," ","c","o","s","t","s"," ","3",".","5","0"," ","a","t"," ",
        "1","0",":","1","5",".">>,
      <<"D","r","."," ","S","m","i","t","h"," ","w","e","n","t"," ","h","o","m","e",".">>,
      <<"w","o","n","-","\n","d","e","r","f","u","l">>,
      <<"(","?",")">>,
      <<"H","i","!">>,
      Rep("a", 250),
      Rep(".", 150),
      <<"a">> \o Rep(".", 150),
      Rep("a", 60) \o <<" ">> \o Rep("b", 60),
      Rep("a", 60) \o <<".", " ">> \o Rep("b", 60),
      <<"a">> \o Rep(" ", 205) \o <<"b">>,
      Rep("a", 99) \o <<"!">> }

\* the (text, maximum size) pairs a gTTS object is run with
EngineInputs ==
    (ShortTexts \X (1..MaxSmallSize)) \cup (SampleTexts \X {GOOGLE_TTS_MAX_CHARS})

\* the arguments (theString, delim, maxSize) minimize is called with directly
MinimizeStrings == StringsUpTo({"a", " "}, MaxLen + 2)
MinimizeDelims == { <<" ">>, <<" ", " ">> }
MinimizeSizes == (-1)..MaxSmallSize
MinimizeInputs ==
    (MinimizeStrings \X MinimizeDelims \X MinimizeSizes)
        \cup { << Rep("a", 250), <<" ">>, GOOGLE_TTS_MAX_CHARS >> }

\* the texts Tokenizer.run is called with directly
TokenizerTexts == ShortTexts \cup SampleTexts

DrSmith ==
    <<"D","r","."," ","S","m","i","t","h"," ","w","e","n","t"," ","h","o","m","e",".">>

\* the texts pre_processors.abbreviations is called with directly: every
\* string of the letters of the roots mr, mrs, ms, sr and of periods, and
\* texts in upper and mixed case
AbbreviationTexts ==
    StringsUpTo({"m", "r", "s", "."}, MaxPreLen)
        \cup { DrSmith,
               <<"M","R",".">>,
               <<"P","r","o","f","."," ","s","t",".",".">>,
               <<"a","d","d","r","."," ","1",".","5">> }

\* a letter, the space, a period and the newline, which is both white space
\* and punctuation
CleanAlphabet == {"a", " ", ".", "\n"}

\* every list of strings over CleanAlphabet of size at most n
RECURSIVE TokenLists(_)
TokenLists(n) ==
    IF n <= 0 THEN { <<>> }
    ELSE { <<>> } \cup
    UNION { { <<t>> \o l : l \in TokenLists(n - Len(t) - 1) } :
            t \in StringsUpTo(CleanAlphabet, n - 1) }

\* the token lists cleanTokens is called with directly
CleanInputs == TokenLists(MaxCleanSize)

Wonderful == <<"w","o","n","-","\n","d","e","r","f","u","l">>

\* the texts pre_processors.endOfLine is called with directly
EndOfLineTexts ==
    StringsUpTo({"a", "-", "\n"}, MaxPreLen) \cup { Wonderful }

(***************************************************************************)
(* State.                                                                  *)
(***************************************************************************)
VARIABLES
    call,        \* the operation in progress: "none", "gTTS", "minimize",
                 \* "Tokenizer", "abbreviations", "endOfLine", "cleanTokens"
    pc,          \* its position
    text,        \* this.text, or the string minimize or Tokenizer.run was called with
    maxChars,    \* gTTS.GOOGLE_TTS_MAX_CHARS
    pre,         \* tokenize: the local text after trim and the pre-processors;
                 \* a pre-processor called directly: the text it returned
    tokens,      \* the list returned by tokenizerFunc / Tokenizer.run, or the
                 \* list cleanTokens was called with
    pending,     \* tokenize: the cleaned tokens the for loop has not reached;
                 \* cleanTokens called directly: the list it returned
    minTokens,   \* tokenize: minTokens
    theString,   \* minimize: the argument of the current (innermost) call
    delim,       \* minimize: delim
    maxSize,     \* minimize: maxSize
    minOut,      \* minimize: the chunks put before the recursive call's result
    textParts,   \* prepareRequests: textParts, the chunk list
    idx,         \* stream: the index (from 1) of the request in hand
    sent,        \* stream: the indexes of the requests handed to fetch, in order
    yielded,     \* stream: the request index of every buffer yielded, in order
    invoked,     \* which of tokenizerFunc and minimize tokenize has called
    error        \* the error raised to the caller, "none" when there is none

vars ==
    << call, pc, text, maxChars, pre, tokens, pending, minTokens, theString,
       delim, maxSize, minOut, textParts, idx, sent, yielded, invoked, error >>

engineVars == << text, maxChars, pre, pending, minTokens, textParts, invoked >>
minimizeVars == << theString, delim, maxSize, minOut >>
streamVars == << idx, sent, yielded >>

Init ==
    /\ call = "none"
    /\ pc = "idle"
    /\ text = <<>>
    /\ maxChars = GOOGLE_TTS_MAX_CHARS
    /\ pre = <<>>
    /\ tokens = <<>>
    /\ pending = <<>>
    /\ minTokens = <<>>
    /\ theString = <<>>
    /\ delim = <<" ">>
    /\ maxSize = GOOGLE_TTS_MAX_CHARS
    /\ minOut = <<>>
    /\ textParts = <<>>
    /\ idx = 0
    /\ sent = <<>>
    /\ yielded = <<>>
    /\ invoked = {}
    /\ error = "none"

\* an error propagates to the caller
Throw(e) == pc' = "thrown" /\ error' = e

(***************************************************************************)
(* minimize: src/src/utils.ts, lines 15-42.  One action per call of the    *)
(* recursion.                                                              *)
(***************************************************************************)
\* a caller outside the class calls minimize(s, d, m)
CallMinimize ==
    /\ pc = "idle"
    /\ \E in \in MinimizeInputs :
          /\ text' = in[1]
          /\ theString' = in[1]
          /\ delim' = in[2]
          /\ maxSize' = in[3]
    /\ call' = "minimize"
    /\ pc' = "minimize"
    /\ minOut' = <<>>
    /\ UNCHANGED << maxChars, pre, pending, minTokens, textParts, invoked,
                    tokens, streamVars, error >>

\* lines 23-38: the stripped string is too long; cut it and recurse on the rest
MinimizeRecurse ==
    /\ pc = "minimize"
    /\ Len(minOut) < MaxStack
    /\ LET s == StripDelim(theString, delim) IN
         /\ Len(s) > maxSize
         /\ LET cut == CutIndex(s, delim, maxSize) IN
              /\ minOut' = Append(minOut, Substring(s, 0, cut))
              /\ theString' = SubstringFrom(s, cut)
    /\ UNCHANGED << call, pc, delim, maxSize, engineVars, tokens, streamVars, error >>

\* lines 39-41: the stripped string fits; the recursion unwinds
MinimizeReturn ==
    /\ pc = "minimize"
    /\ LET s == StripDelim(theString, delim) IN
         /\ Len(s) <= maxSize
         /\ minOut' = Append(minOut, s)
         /\ theString' = s
    /\ pc' = "minimized"
    /\ UNCHANGED << call, delim, maxSize, engineVars, tokens, streamVars, error >>

\* line 38 once the call stack is exhausted: the engine raises a RangeError
StackOverflow ==
    /\ pc = "minimize"
    /\ Len(minOut) >= MaxStack
    /\ Len(StripDelim(theString, delim)) > maxSize
    /\ Throw("RangeError")
    /\ UNCHANGED << call, minimizeVars, engineVars, tokens, streamVars >>

(***************************************************************************)
(* Tokenizer.run called directly: src/src/tokenizer/core.ts, 201-203.      *)
(***************************************************************************)
CallTokenizer ==
    /\ pc = "idle"
    /\ \E t \in TokenizerTexts :
          /\ text' = t
          /\ tokens' = TokenizerRun(t)
    /\ call' = "Tokenizer"
    /\ pc' = "returned"
    /\ UNCHANGED << maxChars, pre, pending, minTokens, textParts, invoked,
                    minimizeVars, streamVars, error >>

(***************************************************************************)
(* The pre-processors called directly: src/src/tokenizer/pre_processors.ts *)
(***************************************************************************)
\* abbreviations(text), lines 38-57
CallAbbreviations ==
    /\ pc = "idle"
    /\ \E t \in AbbreviationTexts :
          /\ text' = t
          /\ pre' = ppAbbreviations(t)
    /\ call' = "abbreviations"
    /\ pc' = "returned"
    /\ UNCHANGED << maxChars, tokens, pending, minTokens, textParts, invoked,
                    minimizeVars, streamVars, error >>

\* endOfLine(text), lines 25-31
CallEndOfLine ==
    /\ pc = "idle"
    /\ \E t \in EndOfLineTexts :
          /\ text' = t
          /\ pre' = ppEndOfLine(t)
    /\ call' = "endOfLine"
    /\ pc' = "returned"
    /\ UNCHANGED << maxChars, tokens, pending, minTokens, textParts, invoked,
                    minimizeVars, streamVars, error >>

(***************************************************************************)
(* cleanTokens called directly: src/src/utils.ts, lines 51-55.             *)
(***************************************************************************)
CallCleanTokens ==
    /\ pc = "idle"
    /\ \E l \in CleanInputs :
          /\ tokens' = l
          /\ pending' = cleanTokens(l)
    /\ call' = "cleanTokens"
    /\ pc' = "returned"
    /\ UNCHANGED << text, maxChars, pre, minTokens, textParts, invoked,
                    minimizeVars, streamVars, error >>

(***************************************************************************)
(* gTTS: src/src/tts.ts.                                                   *)
(***************************************************************************)
\* new gTTS({text}) under a value of gTTS.GOOGLE_TTS_MAX_CHARS (lines 119-165)
Construct ==
    /\ pc = "idle"
    /\ call' = "gTTS"
    /\ \E in \in EngineInputs :
          /\ text' = in[1]
          /\ maxChars' = in[2]
          /\ IF in[1] = <<>>
             THEN Throw("No text to speak")
             ELSE pc' = "constructed" /\ error' = error
    /\ UNCHANGED << pre, tokens, pending, minTokens, textParts, invoked,
                    minimizeVars, streamVars >>

\* stream() -> prepareRequests() -> tokenize(this.text), lines 167-175
TokenizePreProcess ==
    /\ pc = "constructed"
    /\ pre' = PreProcess(Trim(text))
    /\ pc' = "preprocessed"
    /\ UNCHANGED << call, text, maxChars, tokens, pending, minTokens, textParts,
                    invoked, minimizeVars, streamVars, error >>

\* lines 177-179: the fast path
FastPath ==
    /\ pc = "preprocessed"
    /\ Len(pre) <= maxChars
    /\ textParts' = cleanTokens(<< pre >>)
    /\ pc' = "tokenized"
    /\ UNCHANGED << call, text, maxChars, pre, tokens, pending, minTokens,
                    invoked, minimizeVars, streamVars, error >>

\* line 183: tokens = this.tokenizerFunc(text)
Tokenize ==
    /\ pc = "preprocessed"
    /\ Len(pre) > maxChars
    /\ tokens' = TokenizerRun(pre)
    /\ invoked' = invoked \cup {"tokenizer"}
    /\ pc' = "split"
    /\ UNCHANGED << call, text, maxChars, pre, pending, minTokens, textParts,
                    minimizeVars, streamVars, error >>

\* lines 184-185: cleanTokens(tokens); t.trim() throws on an undefined element
CleanSplit ==
    /\ pc = "split"
    /\ IF CleanTokensThrows(tokens)
       THEN /\ Throw("TypeError")
            /\ UNCHANGED << pending, minTokens >>
       ELSE /\ pending' = cleanTokens(tokens)
            /\ minTokens' = <<>>
            /\ pc' = "loop"
            /\ error' = error
    /\ UNCHANGED << call, text, maxChars, pre, tokens, textParts, invoked,
                    minimizeVars, streamVars >>

\* lines 187-188: the next cleaned token is handed to minimize
MinimizeToken ==
    /\ pc = "loop"
    /\ pending # <<>>
    /\ theString' = Head(pending)
    /\ delim' = <<" ">>
    /\ maxSize' = maxChars
    /\ minOut' = <<>>
    /\ pending' = Tail(pending)
    /\ invoked' = invoked \cup {"minimize"}
    /\ pc' = "minimize"
    /\ UNCHANGED << call, text, maxChars, pre, tokens, minTokens, textParts,
                    streamVars, error >>

\* line 188: minTokens.push(...) of what minimize returned
PushMinimized ==
    /\ pc = "minimized"
    /\ call = "gTTS"
    /\ minTokens' = minTokens \o minOut
    /\ pc' = "loop"
    /\ UNCHANGED << call, text, maxChars, pre, tokens, pending, textParts,
                    invoked, minimizeVars, streamVars, error >>

NonEmpty(t) == t # <<>>

\* line 191: return minTokens.filter(t => t)
FilterEmpty ==
    /\ pc = "loop"
    /\ pending = <<>>
    /\ textParts' = SelectSeq(minTokens, NonEmpty)
    /\ pc' = "tokenized"
    /\ UNCHANGED << call, text, maxChars, pre, tokens, pending, minTokens,
                    invoked, minimizeVars, streamVars, error >>

\* prepareRequests without the test of line 201
PrepareRequestsUnchecked ==
    /\ pc = "tokenized"
    /\ pc' = "request"
    /\ idx' = 1
    /\ UNCHANGED << call, engineVars, tokens, minimizeVars, sent, yielded, error >>

\* prepareRequests, lines 201-210
PrepareRequests ==
    /\ pc = "tokenized"
    /\ IF textParts = <<>>
       THEN Throw("No text to send to TTS API") /\ idx' = idx
       ELSE pc' = "request" /\ idx' = 1 /\ error' = error
    /\ UNCHANGED << call, engineVars, tokens, minimizeVars, sent, yielded >>

\* stream, lines 230-237: fetch is called for the request in hand
Fetch ==
    /\ pc = "request"
    /\ sent' = Append(sent, idx)
    /\ pc' = "await"
    /\ UNCHANGED << call, engineVars, tokens, minimizeVars, idx, yielded, error >>

\* FetchFails with the failure swallowed: the loop goes on to the next request
FetchFailsSkip ==
    /\ pc = "await"
    /\ IF idx < Len(textParts)
       THEN idx' = idx + 1 /\ pc' = "request"
       ELSE idx' = idx /\ pc' = "done"
    /\ UNCHANGED << call, engineVars, tokens, minimizeVars, sent, yielded, error >>

\* lines 232-248, 295-299: fetch rejects, or the response is not OK or has
\* no body; every one of them reaches the caller as a gTTSError
FetchFails ==
    /\ pc = "await"
    /\ Throw("gTTSError")
    /\ UNCHANGED << call, engineVars, tokens, minimizeVars, streamVars >>

\* lines 243-251: the response is OK and has a body
FetchOk ==
    /\ pc = "await"
    /\ pc' = "read"
    /\ UNCHANGED << call, engineVars, tokens, minimizeVars, streamVars, error >>

BuffersOf(k) == Len(SelectSeq(yielded, LAMBDA i : i = k))

\* lines 253-293: a buffer decoded from the response is yielded
ReadYield ==
    /\ pc = "read"
    /\ BuffersOf(idx) < MaxBuffers
    /\ yielded' = Append(yielded, idx)
    /\ UNCHANGED << call, pc, engineVars, tokens, minimizeVars, idx, sent, error >>

\* line 254, 295-299: reader.read() rejects
ReadFails ==
    /\ pc = "read"
    /\ Throw("gTTSError")
    /\ UNCHANGED << call, engineVars, tokens, minimizeVars, streamVars >>

\* ReadDone with the loop stepping over a request
ReadDoneSkip ==
    /\ pc = "read"
    /\ IF idx + 1 < Len(textParts)
       THEN idx' = idx + 2 /\ pc' = "request"
       ELSE idx' = idx /\ pc' = "done"
    /\ UNCHANGED << call, engineVars, tokens, minimizeVars, sent, yielded, error >>

\* lines 255, 294, 230: the response is read to its end; on to the next request
ReadDone ==
    /\ pc = "read"
    /\ IF idx < Len(textParts)
       THEN idx' = idx + 1 /\ pc' = "request"
       ELSE idx' = idx /\ pc' = "done"
    /\ UNCHANGED << call, engineVars, tokens, minimizeVars, sent, yielded, error >>

Next ==
    \/ CallMinimize
    \/ MinimizeRecurse
    \/ MinimizeReturn
    \/ StackOverflow
    \/ CallTokenizer
    \/ CallAbbreviations
    \/ CallEndOfLine
    \/ CallCleanTokens
    \/ Construct
    \/ TokenizePreProcess
    \/ FastPath
    \/ Tokenize
    \/ CleanSplit
    \/ MinimizeToken
    \/ PushMinimized
    \/ FilterEmpty
    \/ PrepareRequests
    \/ Fetch
    \/ FetchFails
    \/ FetchOk
    \/ ReadYield
    \/ ReadFails
    \/ ReadDone

Spec == Init /\ [][Next]_vars

\* calls of minimize alone; the code is synchronous, so a call that can take
\* a step takes it
MinimizeNext ==
    \/ CallMinimize
    \/ MinimizeRecurse
    \/ MinimizeReturn
    \/ StackOverflow

MinimizeSpec == Init /\ [][MinimizeNext]_vars /\ WF_vars(MinimizeNext)

(***************************************************************************)
(* Properties.                                                             *)
(***************************************************************************)
\* tokenize has returned its chunk list to prepareRequests
TokenizeReturned ==
    /\ call = "gTTS"
    /\ \/ pc \in {"tokenized", "request", "await", "read", "done"}
       \/ pc = "thrown" /\ error \in {"No text to send to TTS API", "gTTSError"}

\* the characters of s that are neither white space nor punctuation, in order
Content(s) == SelectSeq(s, LAMBDA c : c \notin Range(ALL_PUNC) \cup WhiteSpace)

\* C1: for every text and every positive maximum size, every chunk tokenize
\* returns is at most the maximum size long, and so is every string of the
\* list a call of minimize builds.
C1_SizeInvariant ==
    /\ (call = "gTTS" /\ maxChars > 0) =>
         \A i \in 1..Len(textParts) : Len(textParts[i]) <= maxChars
    /\ (call \in {"gTTS", "minimize"} /\ maxSize > 0) =>
         \A i \in 1..Len(minOut) : Len(minOut[i]) <= maxSize

\* a run of the tokenize -> clean -> minimize path that returned several
\* chunks, one of them exactly as long as the maximum size
C1_Witness ==
    /\ TokenizeReturned
    /\ "minimize" \in invoked
    /\ Len(textParts) >= 2
    /\ \E i \in 1..Len(textParts) : Len(textParts[i]) = maxChars

\* C2 (as claimed): no chunk tokenize returns is empty or made only of white
\* space and punctuation.
C2_NoEmptyOrPunctuationOnlyChunk ==
    TokenizeReturned =>
        \A i \in 1..Len(textParts) :
            textParts[i] # <<>> /\ ~AllPuncOrSpace(textParts[i])

\* C3: when tokenize returns, the characters that are neither white space nor
\* punctuation of its chunks, concatenated in list order, are those of the
\* pre-processed text, in the same order.
C3_OrderPreserved ==
    TokenizeReturned => Content(Concat(textParts)) = Content(pre)

\* a run in which minimize cut a token and characters were consumed at the cuts
C3_Witness ==
    /\ TokenizeReturned
    /\ "minimize" \in invoked
    /\ Len(textParts) >= 2
    /\ Concat(textParts) # pre
    /\ Content(pre) # <<>>

\* C4 (as claimed): a text no longer than the maximum size after trim and
\* pre-processing yields, without the tokenizer or minimize, exactly one
\* chunk: the trimmed pre-processed text.
C4_FastPathOneChunk ==
    (TokenizeReturned /\ Len(pre) <= maxChars) =>
        /\ invoked = {}
        /\ textParts = << Trim(pre) >>

\* C4 (amended): such a text yields, without the tokenizer or minimize, the
\* trimmed pre-processed text as the only chunk when it has a character that
\* is neither white space nor punctuation, and no chunk at all otherwise.
C4_FastPath ==
    (TokenizeReturned /\ Len(pre) <= maxChars) =>
        /\ invoked = {}
        /\ tokens = <<>>
        /\ textParts = IF AllPuncOrSpace(pre) THEN <<>> ELSE << Trim(pre) >>

\* a fast-path run whose single chunk was trimmed and keeps its punctuation
C4_Witness ==
    /\ TokenizeReturned
    /\ Len(pre) <= maxChars
    /\ Len(textParts) = 1
    /\ textParts[1] # pre
    /\ \E i \in 1..Len(textParts[1]) : textParts[1][i] \in Range(ALL_PUNC)

\* the text is empty or made only of white space and punctuation
EmptyInput == call = "gTTS" /\ AllPuncOrSpace(text)

\* C5: a run on an empty text, or on one whose chunk list comes out empty,
\* ends in an error raised to the caller, and fetch has not been called.
C5_EmptyInputFails ==
    /\ (EmptyInput \/ (TokenizeReturned /\ textParts = <<>>)) =>
         /\ sent = <<>>
         /\ pc \notin {"request", "await", "read", "done"}
         /\ pc = "thrown" => error # "none"
    /\ (call = "gTTS" /\ pc = "tokenized" /\ textParts = <<>>) => EmptyInput

\* a text of punctuation only went through tokenize and was refused
C5_Witness ==
    /\ EmptyInput
    /\ text # <<>>
    /\ pc = "thrown"
    /\ error = "No text to send to TTS API"
    /\ sent = <<>>

\* C6: a call of minimize with a positive maxSize returns after finitely many
\* recursive calls (at most two for each character, and one): it never
\* exhausts the stack, and it always reaches its return.
C6_MinimizeTerminates ==
    /\ [](maxSize > 0 =>
            /\ error # "RangeError"
            /\ Len(minOut) <= 2 * Len(text) + 1)
    /\ (pc = "minimize" /\ maxSize > 0) ~> (pc = "minimized")

\* a call on a string that starts with several delimiters has returned, after
\* a call that cut at index 0
C6_Witness ==
    /\ call = "minimize"
    /\ pc = "minimized"
    /\ maxSize > 0
    /\ StartsWith(text, delim \o delim)
    /\ \E i \in 1..Len(minOut) : minOut[i] = <<>>

\* C7 (as claimed): minimize called with a maxSize of 0 or less is refused
\* with an error: it neither recurses nor returns a list.
C7_NonPositiveSizeRejected ==
    (call = "minimize" /\ maxSize <= 0) =>
        /\ minOut = <<>>
        /\ pc \in {"minimize", "thrown"}

\* the elements of a token list that are strings
Strings(ts) == SelectSeq(ts, LAMBDA t : t # undefined)

\* the place of the i-th element of a split result: 0 for a piece of text
\* between matches, g for the capture of group g
Slot(i) == (i - 1) % (NGroups + 1)

\* the text handed to the tokenizer
Tokenized == IF call = "gTTS" THEN pre ELSE text

TokenizerReturned ==
    \/ call = "Tokenizer" /\ pc = "returned"
    \/ call = "gTTS" /\ "tokenizer" \in invoked

\* C8 (as claimed): the tokens give the text back once the space a period or
\* comma split leaves out of every token is put back after the period or
\* comma token.
C8_RoundTripButSplitSpace ==
    TokenizerReturned =>
        Concat([i \in 1..Len(tokens) |->
                  IF tokens[i] = undefined THEN <<>>
                  ELSE IF Slot(i) = 2 THEN tokens[i] \o <<" ">>
                  ELSE tokens[i]]) = Tokenized

\* C8 (amended): the string elements of the list Tokenizer.run returns,
\* concatenated in order, are the text exactly; no character is left out of
\* every token.
C8_RoundTripExact ==
    TokenizerReturned => Concat(Strings(tokens)) = Tokenized

\* a text split at a period: the token of the split holds the space too
C8_Witness ==
    /\ call = "Tokenizer"
    /\ pc = "returned"
    /\ \E i \in 1..Len(tokens) : Slot(i) = 2 /\ tokens[i] = <<".", " ">>
    /\ \E i \in 1..Len(tokens) : Slot(i) = 1 /\ tokens[i] # undefined

\* no delim occurs in s
NoDelimIn(s, d) == \A k \in 0..Len(s) : ~OccursAt(s, d, k)

\* chunks cuts src into ceil(length / m) pieces, all but the last m long
CutEvery(chunks, src, m) ==
    /\ Len(chunks) = (Len(src) + m - 1) \div m
    /\ \A i \in 1..(Len(chunks) - 1) : Len(chunks[i]) = m
    /\ Concat(chunks) = src

\* C9: minimize on a string longer than a positive maxSize in which delim does
\* not occur, and tokenize on a text longer than the maximum size without
\* white space or punctuation, return ceil(length / maxSize) chunks, all but
\* the last maxSize long, whose concatenation is the input.
C9_LongUnbrokenToken ==
    /\ ( /\ call = "minimize"
         /\ pc = "minimized"
         /\ maxSize > 0
         /\ Len(text) > maxSize
         /\ NoDelimIn(text, delim) ) => CutEvery(minOut, text, maxSize)
    /\ ( /\ TokenizeReturned
         /\ Len(text) > maxChars
         /\ Content(text) = text ) => CutEvery(textParts, text, maxChars)

\* 250 characters cut at 100 into chunks of 100, 100 and 50
C9_Witness ==
    /\ call = "minimize"
    /\ pc = "minimized"
    /\ Len(text) = 250
    /\ maxSize = 100
    /\ [i \in 1..Len(minOut) |-> Len(minOut[i])] = <<100, 100, 50>>

\* the 0-based index in the tokenized text at which the i-th element starts
Offset(i) == Len(Concat(Strings(SubSeq(tokens, 1, i - 1))))

CostsExample ==
    <<"I","t"," ","c","o","s","t","s"," ","3",".","5","0"," ","a","t"," ",
      "1","0",":","1","5",".">>

\* C10: every split of the period/comma rule is at a period or comma that a
\* space follows, and every split of the colon rule is at a colon that no
\* digit precedes; "It costs 3.50 at 10:15." comes back as a single token.
C10_DecimalTimeGuard ==
    TokenizerReturned =>
        /\ \A i \in 1..Len(tokens) :
              (Slot(i) = 2 /\ tokens[i] # undefined) =>
                  /\ Offset(i) + 2 <= Len(Tokenized)
                  /\ Tokenized[Offset(i) + 1] \in Range(PERIOD_COMMA)
                  /\ Tokenized[Offset(i) + 2] = " "
        /\ \A i \in 1..Len(tokens) :
              (Slot(i) = 3 /\ tokens[i] # undefined) =>
                  /\ Tokenized[Offset(i) + 1] \in Range(COLON)
                  /\ Offset(i) = 0 \/ ~IsDigit(Tokenized[Offset(i)])
        /\ Tokenized = CostsExample => tokens = << CostsExample >>

\* Tokenizer.run was called on the example, whose periods and colon are
\* guarded, and returned it as a single token
C10_Witness ==
    /\ call = "Tokenizer"
    /\ pc = "returned"
    /\ text = CostsExample
    /\ tokens = << CostsExample >>

\* the characters of s at the indexes (from 1) in keep, in order
Pick(s, keep) ==
    [k \in 1..Cardinality(keep) |->
        s[CHOOSE i \in keep : Cardinality({ j \in keep : j <= i }) = k]]

\* the character of s at index i (from 1) is a period that immediately
\* follows a listed abbreviation root, in any letter case
RootPeriod(s, i) ==
    /\ s[i] = "."
    /\ \E r \in 1..Len(ABBREVIATIONS) :
          /\ i - 1 >= Len(ABBREVIATIONS[r])
          /\ EqualsIgnoreCase(SubSeq(s, i - Len(ABBREVIATIONS[r]), i - 1),
                              ABBREVIATIONS[r])

\* C11 (as claimed): abbreviations(text) is the text without the periods that
\* immediately follow a listed root in it, every other character unchanged;
\* "Dr. Smith went home." becomes "Dr Smith went home." and is segmented into
\* that single chunk.
C11_AbbreviationPeriodsRemoved ==
    /\ (call = "abbreviations" /\ pc = "returned") =>
          pre = Pick(text, { i \in 1..Len(text) : ~RootPeriod(text, i) })
    /\ (TokenizeReturned /\ text = DrSmith) =>
          textParts = << Pick(DrSmith, (1..Len(DrSmith)) \ {3}) >>

\* the indexes (from 1) of the hyphens of s that a newline follows
HyphenBreaks(s) == { i \in 1..(Len(s) - 1) : s[i] = "-" /\ s[i + 1] = "\n" }

\* C17: endOfLine, a PreProcessorRegex built without the global flag, returns
\* the text without any of its hyphen-newline pairs, every other character
\* in place: all the matches are replaced, left to right, not the first
\* only; a text without a match comes back unchanged, and "won-\nderful"
\* comes back as "wonderful".
C17_GlobalSubstitution ==
    (call = "endOfLine" /\ pc = "returned") =>
        /\ pre = Pick(text, { i \in 1..Len(text) :
                                i \notin HyphenBreaks(text)
                                /\ (i - 1) \notin HyphenBreaks(text) })
        /\ HyphenBreaks(text) = {} => pre = text
        /\ text = Wonderful =>
              pre = <<"w","o","n","d","e","r","f","u","l">>

\* endOfLine has returned from a text with two hyphen-newline pairs or more
C17_Witness ==
    /\ call = "endOfLine"
    /\ pc = "returned"
    /\ Cardinality(HyphenBreaks(text)) >= 2
    /\ Len(pre) = Len(text) - 2 * Cardinality(HyphenBreaks(text))

\* C13 (as claimed): minimize called on a token no longer than maxSize, one
\* that begins with the delimiter included, returns the list of that token
\* alone, unchanged.
C13_ShortTokenUnchanged ==
    (call = "minimize" /\ pc = "minimized" /\ Len(text) <= maxSize) =>
        minOut = << text >>

\* the indexes (from 0) among the first m characters of s at which d occurs
DelimsWithin(s, d, m) == { k \in 0..(m - 1) : OccursAt(s, d, k) }

\* the token of a direct call of minimize once one leading delimiter is off
Stripped == StripDelim(text, delim)

\* C14 (as claimed): when the token, one leading delimiter stripped, is longer
\* than maxSize and the delimiter occurs among its first maxSize characters,
\* the first chunk is the token up to the right-most such occurrence, at an
\* index below maxSize, and the recursion goes on with the token from that
\* index; when it does not occur there the cut is at maxSize.
C14_CutWithinWindow ==
    ( /\ call = "minimize"
      /\ maxSize > 0
      /\ Len(Stripped) > maxSize
      /\ Len(minOut) >= 1 ) =>
        LET hits == DelimsWithin(Stripped, delim, maxSize)
            i == IF hits = {} THEN maxSize
                 ELSE CHOOSE k \in hits : \A j \in hits : j <= k
        IN  /\ minOut[1] = Substring(Stripped, 0, i)
            /\ (Len(minOut) = 1 /\ pc = "minimize") =>
                  theString = SubstringFrom(Stripped, i)

\* C15 (as claimed): every element of the list Tokenizer.run returns is a
\* string, one for each delimiter match and one for each run of text between
\* matches, so cleanTokens raises no error on the list.
C15_TokensAreStrings ==
    /\ TokenizerReturned => \A i \in 1..Len(tokens) : tokens[i] # undefined
    /\ call = "gTTS" => error # "TypeError"

\* t has a character that is neither white space nor punctuation
HasContent(t) == \E i \in 1..Len(t) : t[i] \notin Range(ALL_PUNC) \cup WhiteSpace

\* r is t without the white space at its two ends
TrimmedFormOf(r, t) ==
    /\ r # <<>>
    /\ r[1] \notin WhiteSpace
    /\ r[Len(r)] \notin WhiteSpace
    /\ \E a \in 0..(Len(t) - Len(r)) :
          /\ SubSeq(t, a + 1, a + Len(r)) = r
          /\ \A i \in (1..a) \cup ((a + Len(r) + 1)..Len(t)) : t[i] \in WhiteSpace

\* C16: cleanTokens returns, in the order of the input list, the trimmed form
\* of each token that has a character that is neither white space nor
\* punctuation, and nothing else.
C16_CleanTokens ==
    (call = "cleanTokens" /\ pc = "returned") =>
        LET kept == { i \in 1..Len(tokens) : HasContent(tokens[i]) }
            from == Pick([i \in 1..Len(tokens) |-> i], kept)
        IN  /\ Len(pending) = Cardinality(kept)
            /\ \A k \in 1..Len(pending) : TrimmedFormOf(pending[k], tokens[from[k]])

\* cleanTokens has returned from a list of which it dropped a token of
\* punctuation and trimmed another
C16_Witness ==
    /\ call = "cleanTokens"
    /\ pc = "returned"
    /\ \E i \in 1..Len(tokens) : tokens[i] # <<>> /\ ~HasContent(tokens[i])
    /\ \E i \in 1..Len(tokens) : HasContent(tokens[i]) /\ Trim(tokens[i]) # tokens[i]
    /\ Len(pending) >= 1
    /\ Len(pending) < Len(tokens)

\* the requests handed to fetch so far are those of chunks 1, 2, ... in order
SentInOrder == sent = [k \in 1..Len(sent) |-> k]

\* C12: stream hands the requests to fetch one per chunk in list order, all of
\* them by the time it completes; a request is issued only when no response
\* is awaited or being read, and every buffer yielded comes from the response
\* to the last request issued, so the buffers of response k all come before
\* those of response k+1.
C12_RequestOrdering ==
    /\ [](call = "gTTS" =>
            /\ SentInOrder
            /\ Len(sent) <= Len(textParts)
            /\ pc = "done" => Len(sent) = Len(textParts)
            /\ \A i \in 1..(Len(yielded) - 1) : yielded[i] <= yielded[i + 1])
    /\ [][ /\ sent' # sent =>
                /\ sent' = Append(sent, Len(sent) + 1)
                /\ pc = "request"
                /\ pc' = "await"
           /\ yielded' # yielded =>
                /\ sent' = sent
                /\ sent # <<>>
                /\ yielded' = Append(yielded, sent[Len(sent)]) ]_vars

\* a stream over three chunks or more has completed and yielded a buffer from
\* the first response and one from the second
C12_Witness ==
    /\ call = "gTTS"
    /\ pc = "done"
    /\ Len(textParts) >= 3
    /\ Len(sent) = Len(textParts)
    /\ \E i, j \in 1..Len(yielded) : yielded[i] = 1 /\ yielded[j] = 2

\* C18: a request that does not lead to a readable response ends the stream
\* with a gTTSError raised to the caller; once the error is raised no request
\* is issued, so none for a chunk after the failed one, and the buffers
\* yielded before stay as they were: none retracted, none yielded again.
C18_FailureStopsStream ==
    /\ [](call = "gTTS" /\ error = "gTTSError" =>
            /\ pc = "thrown"
            /\ SentInOrder
            /\ Len(sent) = idx
            /\ \A i \in 1..Len(yielded) : yielded[i] <= idx)
    /\ [][ /\ (pc = "await" /\ pc' # "read") =>
                /\ pc' = "thrown"
                /\ error' = "gTTSError"
                /\ sent' = sent
                /\ yielded' = yielded
           /\ pc = "thrown" => (sent' = sent /\ yielded' = yielded)
           /\ SubSeq(yielded', 1, Len(yielded)) = yielded ]_vars

\* the request for the second of three chunks or more failed after a buffer
\* of the first response was yielded
C18_Witness ==
    /\ call = "gTTS"
    /\ pc = "thrown"
    /\ error = "gTTSError"
    /\ Len(textParts) >= 3
    /\ sent = <<1, 2>>
    /\ yielded = <<1>>

=============================================================================
